---- MODULE Spec2Model ----
(***************************************************************************)
(* Model of the HighCapacityNeuralProcessor React component                *)
(* (src/app/page.tsx): the word registry (`words`), the two WebGL          *)
(* textures, the mount effect that sets up WebGL and starts the animation  *)
(* loop, and the handlers addWord / handleAddWord / processInput /         *)
(* handleFileUpload.                                                       *)
(*                                                                         *)
(* Words and texts are sequences of character codes, so that lower-casing, *)
(* word matching and the texture encoding are computed as the code does.   *)
(*                                                                         *)
(* React semantics used: a handler created by useCallback sees the `words` *)
(* array of the render that created it.  An event (click, file chosen)     *)
(* runs the handler of the latest committed render, so it sees the current *)
(* `words`; the continuation of an async handler keeps the closure it      *)
(* started with.  setWords(prev => ...) is applied to the current state.   *)
(***************************************************************************)
EXTENDS Integers, Sequences, FiniteSets, TLC

\* ------------------------------------------------------------------ sizes
\* MAX_WORDS (page.tsx:27, 100000) and TEXTURE_SIZE (page.tsx:26, 4096),
\* scaled down so that the capacity is reached within the explored runs.
MAX_WORDS == 3
TEXTURE_SIZE == 2
\* height of the word-data texture: texImage2D(..., TEXTURE_SIZE, 1, ...)
WORD_TEX_HEIGHT == 1
\* number of handleFileUpload invocations that may be in flight at once (a
\* finished invocation frees its slot; with 2 the uploads overlap)
MaxUploads == 1

Uploads == 1..MaxUploads
\* the distinguishable outcomes of filling a buffer with Math.random(): a
\* fill is a tag for the values drawn, and the fill of the mount effect is
\* called 1
RandomFills == {1, 2}
MountFills == {1}

\* ------------------------------------------------------------------ inputs
\* texts of the uploaded files, as character codes
\*   "x y z w"   four distinct words, one more than the capacity
\*   "X x"       an upper-case word and its lower-case repetition
\*   " "         no word at all
Texts ==
  { <<120, 32, 121, 32, 122, 32, 119>>,
    <<88, 32, 120>>,
    <<32>> }

\* contents of the "new word" input box: "", "x"
NewWords == { <<>>, <<120>> }

\* contents of the "input word" box: "x", "y", "w"
InputWords == { <<120>>, <<121>>, <<119>> }

\* the string 'Unknown word' shown for an unregistered input (page.tsx:293)
UnknownWord ==
  <<85, 110, 107, 110, 111, 119, 110, 32, 119, 111, 114, 100>>

\* ------------------------------------------------------- pure functions
\* String.prototype.toLowerCase on one character code (ASCII letters)
ToLowerChar(c) == IF c \in 65..90 THEN c + 32 ELSE c

ToLowerCase(text) == [k \in 1..Len(text) |-> ToLowerChar(text[k])]

\* \w of the regular expression: [A-Za-z0-9_]
IsWordChar(c) == c \in (48..57) \cup (65..90) \cup {95} \cup (97..122)

\* text.match(/\b\w+\b/g) || []  : the maximal runs of word characters
RECURSIVE ScanWords(_, _, _)
ScanWords(rest, cur, acc) ==
  IF rest = <<>>
    THEN IF cur = <<>> THEN acc ELSE Append(acc, cur)
    ELSE IF IsWordChar(Head(rest))
           THEN ScanWords(Tail(rest), Append(cur, Head(rest)), acc)
           ELSE ScanWords(Tail(rest), <<>>,
                          IF cur = <<>> THEN acc ELSE Append(acc, cur))

MatchWords(text) == ScanWords(text, <<>>, <<>>)

\* wordsFromFile of handleFileUpload
WordsFromFile(text) == MatchWords(ToLowerCase(text))

Min(a, b) == IF a <= b THEN a ELSE b

\* words.includes(word)
Includes(ws, word) == \E k \in 1..Len(ws) : ws[k] = word

\* words.indexOf(word): 0-based index of the first occurrence, or -1
IndexOf(ws, word) ==
  IF Includes(ws, word)
    THEN (CHOOSE k \in 1..Len(ws) :
            ws[k] = word /\ \A j \in 1..(k - 1) : ws[j] # word) - 1
    ELSE -1

\* one row of the word-data texture written by addWord: a zeroed
\* Float32Array(TEXTURE_SIZE * 4) with wordData[i * 4] = charCode(i) / 255.
\* A cell holds the numerator of its value over 255; writes past the end of
\* the typed array are dropped.
EncodeWord(word) ==
  [c \in 1..(TEXTURE_SIZE * 4) |->
     IF (c - 1) % 4 = 0 /\ (c - 1) \div 4 < Len(word)
       THEN word[((c - 1) \div 4) + 1]
       ELSE 0]

\* a row filled with Math.random(): cells tagged with the fill, negative so
\* that they differ from every encoded cell
RandomRow(fill) == [c \in 1..(TEXTURE_SIZE * 4) |-> 0 - fill]

\* gl.texImage2D(TEXTURE_2D, 0, RGBA, TEXTURE_SIZE, 1, 0, RGBA, FLOAT, data):
\* the image of the word-data texture, a sequence of WORD_TEX_HEIGHT rows.
\* A WebGL 1 context accepts FLOAT data only with OES_texture_float enabled,
\* which the component never requests: where the context rejects the call
\* the texture keeps no image (no rows).
AllocWordTex(floatOk, fill) ==
  IF floatOk THEN [r \in 1..WORD_TEX_HEIGHT |-> RandomRow(fill)] ELSE <<>>

\* the neuron-state texture: its width and height, and its cells abstracted
\* to the fill of channel 0 and the fill of channels 1..3 (0 = zeroes)
NoGrid == [defined |-> FALSE, w |-> 0, h |-> 0, r |-> 0, gba |-> 0]

AllocNeuronTex(floatOk, fill) ==
  IF floatOk
    THEN [defined |-> TRUE, w |-> TEXTURE_SIZE, h |-> TEXTURE_SIZE,
          r |-> fill, gba |-> fill]
    ELSE NoGrid

\* gl.texSubImage2D(TEXTURE_2D, 0, 0, yoffset, TEXTURE_SIZE, 1, ...) on the
\* word-data texture: a region outside the image is INVALID_VALUE, no write
TexSubImageRow(tex, yoffset, data) ==
  IF yoffset + 1 <= Len(tex)
    THEN [tex EXCEPT ![yoffset + 1] = data]
    ELSE tex

\* (mutant) an upload that writes channel 0 only and keeps channels 1..3
TexSubImageGridBlend(tex, fill) ==
  IF tex.defined /\ tex.w = TEXTURE_SIZE /\ tex.h = TEXTURE_SIZE
    THEN [tex EXCEPT !.r = fill]
    ELSE tex

\* gl.texSubImage2D(TEXTURE_2D, 0, 0, 0, TEXTURE_SIZE, TEXTURE_SIZE, ...) in
\* processInput: neuronData is zeroed and only neuronData[i * 4] is random.
\* The region is the whole image (both are TEXTURE_SIZE x TEXTURE_SIZE); a
\* region that does not fit the image is INVALID_VALUE, no write.
TexSubImageGrid(tex, fill) ==
  IF tex.defined /\ tex.w = TEXTURE_SIZE /\ tex.h = TEXTURE_SIZE
    THEN [tex EXCEPT !.r = fill, !.gba = 0]
    ELSE tex

\* the condition of addWord, evaluated on the `words` of its closure
AddWordAllowed(snap, word) == ~Includes(snap, word) /\ Len(snap) < MAX_WORDS

\* (mutant) the new word is put in front
PrependWord(prev, word) == <<word>> \o prev

\* the updater passed to setWords: prev => [...prev, word]
AppendWord(prev, word) == Append(prev, word)

\* the row addWord uploads to: words.length of its closure
UploadRow(snap) == Len(snap)

\* addWord(word) run with closure `snap` on the state `cur`: the new state
AddWordWords(snap, cur, word) ==
  IF AddWordAllowed(snap, word) THEN AppendWord(cur, word) ELSE cur

\* addWord(word) run with closure `snap`: the new word-data texture
AddWordTex(snap, tex, word, haveTex) ==
  IF AddWordAllowed(snap, word) /\ haveTex
    THEN TexSubImageRow(tex, UploadRow(snap), EncodeWord(word))
    ELSE tex

\* the words addWord appended in a step from `cur` to `new`
Appended(cur, new) == SubSeq(new, Len(cur) + 1, Len(new))

\* (mutant) the successor without the modulo: words[index + 1] is undefined
\* for the last word, shown here as the non-word <<0>>
ProcessOutputNoWrap(ws, word) ==
  LET index == IndexOf(ws, word) IN
    IF index # -1
      THEN IF index + 1 < Len(ws) THEN ws[index + 2] ELSE <<0>>
      ELSE UnknownWord

\* the word processInput shows for `word` with closure `ws`
ProcessOutput(ws, word) ==
  LET index == IndexOf(ws, word) IN
    IF index # -1
      THEN ws[((index + 1) % Len(ws)) + 1]
      ELSE UnknownWord

\* (mutant) the loop bound without the capacity cap
TotalWordsUncapped(tokens, snap) == Len(tokens)

\* totalWords of handleFileUpload
TotalWords(tokens, snap) == Min(Len(tokens), MAX_WORDS - Len(snap))

\* ------------------------------------------------------------------ state
VARIABLES
  words,         \* useState: the registry
  outputWord,    \* useState: the output of processInput
  error,         \* useState: "none" for null, else which setError ran
  isProcessing,  \* useState
  refs,          \* glRef, programRef, texture refs, animation loop
  neuronTex,     \* image of the neuron-state texture
  wordTex,       \* image of the word-data texture
  lastFrame,     \* what the last drawArrays was issued with
  up             \* the running handleFileUpload invocations

vars == <<words, outputWord, error, isProcessing, refs, neuronTex, wordTex,
          lastFrame, up>>

NoRefs ==
  [mounted |-> FALSE, gl |-> FALSE, program |-> FALSE, textures |-> FALSE,
   loop |-> FALSE, renderLen |-> 0]

NoFrame == [drawn |-> FALSE, u_wordCount |-> 0]

IdleUpload ==
  [pc |-> "idle", snap |-> <<>>, tokens |-> <<>>, total |-> 0, i |-> 0,
   added |-> <<>>]

Init ==
  /\ words = <<>>
  /\ outputWord = <<>>
  /\ error = "none"
  /\ isProcessing = FALSE
  /\ refs = NoRefs
  /\ neuronTex = NoGrid
  /\ wordTex = <<>>
  /\ lastFrame = NoFrame
  /\ up = [u \in Uploads |-> IdleUpload]

\* ------------------------------------------------------------ mount effect
InitOutcomes == {"noContext", "shaderFail", "linkFail", "ok"}

\* (mutant) the animation loop is requested whatever the outcome
MountRefsAlwaysLoop(outcome, ws) ==
  [mounted |-> TRUE,
   gl |-> outcome # "noContext",
   program |-> outcome = "ok",
   textures |-> outcome = "ok",
   loop |-> TRUE,
   renderLen |-> Len(ws)]

\* the refs after the mount effect: glRef is set once getContext succeeds,
\* programRef and the texture refs only after the program linked, and
\* requestAnimationFrame(animate) is reached only then.  `animate` calls the
\* `render` of the first render, whose words.length is that of `ws`.
MountRefs(outcome, ws) ==
  [mounted |-> TRUE,
   gl |-> outcome # "noContext",
   program |-> outcome = "ok",
   textures |-> outcome = "ok",
   loop |-> outcome = "ok",
   renderLen |-> Len(ws)]

\* the setError of the mount effect
MountError(outcome) ==
  CASE outcome = "noContext" -> "webgl"
    [] outcome = "shaderFail" -> "shaders"
    [] outcome = "linkFail" -> "program"
    [] OTHER -> "none"

Initialize(outcome, floatOk, fill) ==
  /\ ~refs.mounted
  /\ refs' = MountRefs(outcome, words)
  /\ error' = IF outcome = "ok" THEN error ELSE MountError(outcome)
  /\ neuronTex' = IF outcome = "ok" THEN AllocNeuronTex(floatOk, fill)
                                    ELSE neuronTex
  /\ wordTex' = IF outcome = "ok" THEN AllocWordTex(floatOk, fill)
                                  ELSE wordTex
  /\ UNCHANGED <<words, outputWord, isProcessing, lastFrame, up>>

\* --------------------------------------------------------------- render
\* one animation frame: animate -> render(time)
Render ==
  /\ refs.mounted
  /\ refs.loop
  /\ lastFrame' = IF refs.gl /\ refs.program
                    THEN [drawn |-> TRUE, u_wordCount |-> refs.renderLen]
                    ELSE lastFrame
  /\ UNCHANGED <<words, outputWord, error, isProcessing, refs, neuronTex,
                 wordTex, up>>

\* ---------------------------------------------------------- handleAddWord
\* (React runs the mount effect before it dispatches any user event, so the
\* handlers below run on a mounted component)
HandleAddWord(newWord) ==
  /\ refs.mounted
  /\ IF newWord # <<>> /\ ~Includes(words, newWord)
       THEN /\ words' = AddWordWords(words, words, newWord)
            /\ wordTex' = AddWordTex(words, wordTex, newWord,
                                     refs.gl /\ refs.textures)
       ELSE UNCHANGED <<words, wordTex>>
  /\ UNCHANGED <<outputWord, error, isProcessing, refs, neuronTex, lastFrame,
                 up>>

\* (mutant) processInput without the index test around the upload
ProcessInputAlwaysUploads(word, fill) ==
  /\ refs.mounted
  /\ neuronTex' = IF refs.gl /\ refs.textures
                    THEN TexSubImageGrid(neuronTex, fill)
                    ELSE neuronTex
  /\ outputWord' = ProcessOutput(words, word)
  /\ UNCHANGED <<words, error, isProcessing, refs, wordTex, lastFrame, up>>

\* ----------------------------------------------------------- processInput
ProcessInput(word, fill) ==
  /\ refs.mounted
  /\ neuronTex' = IF IndexOf(words, word) # -1 /\ refs.gl /\ refs.textures
                    THEN TexSubImageGrid(neuronTex, fill)
                    ELSE neuronTex
  /\ outputWord' = ProcessOutput(words, word)
  /\ UNCHANGED <<words, error, isProcessing, refs, wordTex, lastFrame, up>>

\* ------------------------------------------------------- handleFileUpload
\* a file was chosen: the handler of the current render starts and suspends
\* at `await file.text()`
\* (the invocations are interchangeable: a new one takes the lowest free slot)
Free(u) == up[u].pc \in {"idle", "done", "failed"}

CanStartUpload(u) ==
  refs.mounted /\ Free(u) /\ \A v \in 1..(u - 1) : ~Free(v)

StartUpload(u) ==
  /\ CanStartUpload(u)
  /\ isProcessing' = TRUE
  /\ up' = [up EXCEPT ![u] = [IdleUpload EXCEPT !.pc = "reading",
                                                !.snap = words]]
  /\ UNCHANGED <<words, outputWord, error, refs, neuronTex, wordTex,
                 lastFrame>>

\* (mutant) a loop body that runs two iterations before it awaits
LoopBodyNoYield(u, tokens, total, n) ==
  LET snap == up[u].snap
      last == IF n + 1 < total THEN n + 1 ELSE n
      one == AddWordWords(snap, words, tokens[n + 1])
      new == IF last > n THEN AddWordWords(snap, one, tokens[last + 1])
                         ELSE one IN
    /\ words' = new
    /\ wordTex' = AddWordTex(snap, wordTex, tokens[last + 1],
                             refs.gl /\ refs.textures)
    /\ up' = [up EXCEPT ![u].pc = "waiting", ![u].tokens = tokens,
                        ![u].total = total, ![u].i = last,
                        ![u].added = up[u].added \o Appended(words, new)]
    /\ UNCHANGED <<error, isProcessing>>

\* the body of the for loop for index n, up to its await
LoopBody(u, tokens, total, n) ==
  LET snap == up[u].snap
      new == AddWordWords(snap, words, tokens[n + 1]) IN
    /\ words' = new
    /\ wordTex' = AddWordTex(snap, wordTex, tokens[n + 1],
                             refs.gl /\ refs.textures)
    /\ up' = [up EXCEPT ![u].pc = "waiting", ![u].tokens = tokens,
                        ![u].total = total, ![u].i = n,
                        ![u].added = up[u].added \o Appended(words, new)]
    /\ UNCHANGED <<error, isProcessing>>

\* (mutant) the statements after the loop without setIsProcessing(false)
LoopExitKeepsFlag(u, tokens, total) ==
  /\ error' = "none"
  /\ up' = [up EXCEPT ![u] = [IdleUpload EXCEPT !.pc = "done"]]
  /\ UNCHANGED <<words, wordTex, isProcessing>>

\* the statements after the loop; the invocation ends and its locals with it
LoopExit(u, tokens, total) ==
  /\ isProcessing' = FALSE
  /\ error' = "none"
  /\ up' = [up EXCEPT ![u] = [IdleUpload EXCEPT !.pc = "done"]]
  /\ UNCHANGED <<words, wordTex>>

\* file.text() resolved: the words are matched, the loop is entered
ReadOk(u, text) ==
  /\ up[u].pc = "reading"
  /\ LET tokens == WordsFromFile(text)
         total == TotalWords(tokens, up[u].snap) IN
       IF 0 < total THEN LoopBody(u, tokens, total, 0)
                    ELSE LoopExit(u, tokens, total)
  /\ UNCHANGED <<outputWord, refs, neuronTex, lastFrame>>

\* (mutant) a catch block that forgets setIsProcessing(false)
ReadFailKeepsFlag(u) ==
  /\ up[u].pc = "reading"
  /\ error' = "file"
  /\ up' = [up EXCEPT ![u] = [IdleUpload EXCEPT !.pc = "failed"]]
  /\ UNCHANGED <<words, outputWord, isProcessing, refs, neuronTex, wordTex,
                 lastFrame>>

\* file.text() rejected: the catch block
ReadFail(u) ==
  /\ up[u].pc = "reading"
  /\ error' = "file"
  /\ isProcessing' = FALSE
  /\ up' = [up EXCEPT ![u] = [IdleUpload EXCEPT !.pc = "failed"]]
  /\ UNCHANGED <<words, outputWord, refs, neuronTex, wordTex, lastFrame>>

\* the setTimeout(resolve, 0) fired: i++, the loop test, the next body or
\* the statements after the loop
Resume(u) ==
  /\ up[u].pc = "waiting"
  /\ IF up[u].i + 1 < up[u].total
       THEN LoopBody(u, up[u].tokens, up[u].total, up[u].i + 1)
       ELSE LoopExit(u, up[u].tokens, up[u].total)
  /\ UNCHANGED <<outputWord, refs, neuronTex, lastFrame>>

\* ------------------------------------------------------------------- spec
Next ==
  \/ \E o \in InitOutcomes, f \in BOOLEAN, r \in MountFills :
       Initialize(o, f, r)
  \/ Render
  \/ \E w \in NewWords : HandleAddWord(w)
  \/ \E w \in InputWords, r \in RandomFills : ProcessInput(w, r)
  \/ \E u \in Uploads : StartUpload(u)
  \/ \E u \in Uploads, t \in Texts : ReadOk(u, t)
  \/ \E u \in Uploads : ReadFail(u)
  \/ \E u \in Uploads : Resume(u)

Spec == Init /\ [][Next]_vars

\* a continuation of the upload u: the promise of file.text() settles (it
\* resolves or rejects), a timer of setTimeout(resolve, 0) fires.  The event
\* loop runs every such continuation that is due.
UploadStep(u) ==
  \/ \E t \in Texts : ReadOk(u, t)
  \/ ReadFail(u)
  \/ Resume(u)

FairSpec == Spec /\ \A u \in Uploads : WF_vars(UploadStep(u))

\* ================================================================ claims
Distinct(ws) == \A j, k \in 1..Len(ws) : j # k => ws[j] # ws[k]

\* the token after index i (1-based), cyclically: index (i + 1) mod size()
Successor(ws, i) == ws[(i % Len(ws)) + 1]

InitFailed(r) == r.mounted /\ ~r.program

\* C1: in every reachable state the registry holds at most MAX_WORDS words.
C1_SizeWithinCapacity == Len(words) <= MAX_WORDS

\* C2: adding a word that is already in the registry is a no-op: no step
\* appends a word that the registry already holds.
C2_AddPresentIsNoOp ==
  [][\A k \in (Len(words) + 1)..Len(words') : ~Includes(words, words'[k])]_vars

\* C3: the registry is duplicate-free in every reachable state.
C3_NoDuplicates == Distinct(words)

\* C4: processInput of the word at any index i of the registry outputs the
\* word at index (i + 1) mod size().
C4_CyclicSuccessor ==
  [][\A w \in InputWords, f \in RandomFills :
       ProcessInput(w, f) =>
         \A i \in 1..Len(words) :
           words[i] = w => outputWord' = Successor(words, i)]_vars

\* C5: processInput of a word that is not in the registry outputs the
\* UnknownWord sentinel and leaves the neuron-state texture, the registry and
\* the word-data texture unchanged.
C5_UnknownWordFrame ==
  [][\A w \in InputWords, f \in RandomFills :
       (~Includes(words, w) /\ ProcessInput(w, f)) =>
         /\ outputWord' = UnknownWord
         /\ neuronTex' = neuronTex
         /\ words' = words
         /\ wordTex' = wordTex]_vars

C5_Witness ==
  /\ outputWord = UnknownWord
  /\ neuronTex.defined
  /\ words # <<>>

\* C6: an upload that started on an empty registry with at least MAX_WORDS
\* distinct words has, when it leaves its loop, appended exactly the first
\* MAX_WORDS of them in source order; when nothing else was added, processInput
\* of a dropped word then gives UnknownWord and of a registered word its
\* successor.
C6_CapacityPrefix ==
  [][\A u \in Uploads :
       (/\ up[u].pc = "waiting"
        /\ up'[u].pc = "done"
        /\ up[u].snap = <<>>
        /\ Distinct(up[u].tokens)
        /\ Len(up[u].tokens) >= MAX_WORDS)
       => /\ up[u].added = SubSeq(up[u].tokens, 1, MAX_WORDS)
          /\ words' = up[u].added =>
               /\ \A k \in (MAX_WORDS + 1)..Len(up[u].tokens) :
                    ProcessOutput(words', up[u].tokens[k]) = UnknownWord
               /\ \A i \in 1..Len(words') :
                    ProcessOutput(words', words'[i]) = Successor(words', i)]_vars

\* the upload of "x y z w" into the empty registry has made its last
\* insertion, nothing else was added, and processInput("y") has run since
C6_Witness ==
  \E u \in Uploads :
    /\ up[u].pc = "waiting"
    /\ up[u].snap = <<>>
    /\ Len(up[u].tokens) > MAX_WORDS
    /\ Distinct(up[u].tokens)
    /\ up[u].i + 1 = up[u].total
    /\ words = up[u].added
    /\ Len(words) = MAX_WORDS
    /\ outputWord = words[3]

\* C7: once the word-data texture has its image, row i holds the encoding of
\* the i-th registered word, for every index of the registry.
C7_TextureMirrorsRegistry ==
  (refs.textures /\ wordTex # <<>>) =>
    \A i \in 1..Len(words) :
      i <= Len(wordTex) /\ wordTex[i] = EncodeWord(words[i])

\* C8: a mount effect that fails to get the context, to compile or to link
\* sets an error and does not start the animation loop, and in a session
\* whose mount effect failed no frame is ever drawn.
C8_FailedNeverRenders ==
  [][/\ \A o \in InitOutcomes \ {"ok"}, f \in BOOLEAN, r \in MountFills :
          Initialize(o, f, r) => error' # "none" /\ ~refs'.loop
     /\ InitFailed(refs') => ~lastFrame'.drawn /\ ~refs'.loop]_vars

C8_Witness ==
  /\ InitFailed(refs)
  /\ ~lastFrame.drawn
  /\ words # <<>>
  /\ outputWord # <<>>
  /\ \E u \in Uploads : up[u].pc = "done"

\* C9: when reading the file fails, the failing step leaves the registry and
\* both textures unchanged, the upload has appended nothing, the error is
\* set, isProcessing is cleared and a new upload can start.
C9_ReadErrorRecoverable ==
  [][\A u \in Uploads :
       ReadFail(u) =>
         /\ words' = words
         /\ wordTex' = wordTex
         /\ neuronTex' = neuronTex
         /\ up'[u].added = <<>>
         /\ error' = "file"
         /\ ~isProcessing'
         /\ \E v \in Uploads : CanStartUpload(v)']_vars

C9_Witness ==
  /\ error = "file"
  /\ ~isProcessing
  /\ words # <<>>
  /\ \E u \in Uploads : up[u].pc = "failed"

\* C10: the registry never shrinks and a word keeps its index.
C10_AppendOnly ==
  [][/\ Len(words') >= Len(words)
     /\ \A i \in 1..Len(words) : words'[i] = words[i]]_vars

C10_Witness ==
  /\ Len(words) >= MAX_WORDS
  /\ \E u \in Uploads : up[u].pc = "done"

\* C11: every frame drawn carries as u_wordCount the size of the registry
\* at the moment of that frame.
C11_FrameCarriesRegistrySize ==
  [][(Render /\ lastFrame'.drawn) =>
       lastFrame'.u_wordCount = Len(words)]_vars

\* a is b with some elements left out, the order kept
RECURSIVE IsSubsequence(_, _)
IsSubsequence(a, b) ==
  IF a = <<>> THEN TRUE
  ELSE IF b = <<>> THEN FALSE
  ELSE IF Head(a) = Head(b) THEN IsSubsequence(Tail(a), Tail(b))
  ELSE IsSubsequence(a, Tail(b))

\* the upload u has run its loop body in this step
Inserted(u) == up'[u].pc = "waiting" /\ up'[u] # up[u]

WholeImage(t) == t.gba = t.r \/ t.gba = 0

\* C13: processInput of a registered word replaces the whole neuron-state
\* image in one step: the new image is the uploaded data alone, whatever the
\* image was, its width and height are unchanged, and in no state is the
\* image a mix of two uploads.
C13_GridReplacedWhole ==
  [][/\ \A w \in InputWords, f \in RandomFills :
          (Includes(words, w) /\ neuronTex.defined /\ ProcessInput(w, f)) =>
            neuronTex' = [defined |-> TRUE, w |-> neuronTex.w,
                          h |-> neuronTex.h, r |-> f, gba |-> 0]
     /\ neuronTex'.defined =>
          /\ WholeImage(neuronTex')
          /\ neuronTex'.w = TEXTURE_SIZE
          /\ neuronTex'.h = TEXTURE_SIZE]_vars

C13_Witness ==
  /\ neuronTex.defined
  /\ neuronTex.r = 2
  /\ neuronTex.gba = 0
  /\ Includes(words, outputWord)
  /\ lastFrame.drawn

\* C14: every started upload finishes: an upload that waits after its k-th
\* addWord call has k at most the number of words of its source and at most
\* MAX_WORDS minus the registry size at its start; the step that ends an
\* upload, normally or by a read error, clears isProcessing; and an upload in
\* progress is eventually over: at every moment the invocation is over then
\* or later (which is "in progress leads to over", an invocation that is over
\* being over now).
C14_UploadTerminates ==
  /\ [](\A u \in Uploads :
          up[u].pc = "waiting" =>
            /\ up[u].i + 1 <= Len(up[u].tokens)
            /\ up[u].i + 1 <= MAX_WORDS - Len(up[u].snap))
  /\ [][\A u \in Uploads : (~Free(u) /\ Free(u)') => ~isProcessing']_vars
  /\ \A u \in Uploads : []<>(Free(u))

\* an upload has ended after it appended words up to the capacity
C14_Witness ==
  /\ \E u \in Uploads : up[u].pc = "done"
  /\ ~isProcessing
  /\ Len(words) = MAX_WORDS

\* C15: the output of processInput is the UnknownWord sentinel or a word of
\* the registry (it is empty only before the first processInput); for every
\* input the successor index is computed only for a word that was found, so
\* on a non-empty registry, and it is an index of the registry.
C15_OutputWellDefined ==
  /\ \/ outputWord = <<>>
     \/ outputWord = UnknownWord
     \/ Includes(words, outputWord)
  /\ \A w \in InputWords :
       LET index == IndexOf(words, w) IN
         IF index # -1
           THEN /\ Len(words) > 0
                /\ (index + 1) % Len(words) \in 0..(Len(words) - 1)
                /\ Includes(words, ProcessOutput(words, w))
           ELSE ProcessOutput(words, w) = UnknownWord

\* processInput of the last word of a registry of several words has wrapped
\* to the first
C15_Witness ==
  /\ Len(words) >= 2
  /\ Distinct(words)
  /\ outputWord = words[1]
  /\ ProcessOutput(words, words[Len(words)]) = outputWord

====
